---- MODULE Spec2Model ----
(***************************************************************************)
(* Handler lifecycle and level propagation of LoggerConfig                 *)
(* (src/logging_config.py).  A LoggerConfig owns three optional handler    *)
(* references (file, syslog, console) on a logger that is shared by name   *)
(* through logging.getLogger.                                              *)
(***************************************************************************)
EXTENDS Integers, FiniteSets, Sequences, TLC

VARIABLES cfg, loggers, heap, last, prev, pc, obs, hist

vars == <<cfg, loggers, heap, last, prev, pc, obs, hist>>

(***************************************************************************)
(* Bounds and input sets                                                   *)
(***************************************************************************)
\* size of the pool of handler object identities
MaxHandlers == 7

HandlerIds == 1..MaxHandlers

\* LoggerConfig objects of the process, in order of identity
ConfigSeq == <<"c1", "c2">>

Configs == {ConfigSeq[i] : i \in 1..Len(ConfigSeq)}

OneConfig == {"c1"}

\* logger names handed to the constructor
Names == {"app"}

Kinds == {"file", "syslog", "console"}

KindSeq == <<"file", "syslog", "console">>

(***************************************************************************)
(* Python values                                                           *)
(***************************************************************************)
\* None for a handler reference
NoHandler == 0

\* None passed for an optional string argument
NoneStr == "<None>"

\* a key that is missing from the JSON object
Absent == "<absent>"

\* a JSON value that is not a string (number, null, list ...)
BadType == "<non-string>"

DEBUG == 10

INFO == 20

WARNING == 30

ERROR == 40

CRITICAL == 50

NOTSET == 0

PyMax(a, b) == IF a >= b THEN a ELSE b

\* str.upper() on the level names used as inputs
Upper(s) ==
  CASE s \in {"debug", "Debug"} -> "DEBUG"
    [] s \in {"info", "Info"} -> "INFO"
    [] s \in {"warning", "Warning"} -> "WARNING"
    [] s \in {"error", "Error"} -> "ERROR"
    [] s \in {"critical", "Critical"} -> "CRITICAL"
    [] s \in {"nope", "Nope"} -> "NOPE"
    [] s = "inof" -> "INOF"
    [] s = "warn" -> "WARN"
    [] s = "notset" -> "NOTSET"
    [] OTHER -> s

\* the integer attributes of the logging module that a level name can hit
LoggingAttrs ==
  [DEBUG |-> DEBUG, INFO |-> INFO, WARNING |-> WARNING, WARN |-> WARNING,
   ERROR |-> ERROR, CRITICAL |-> CRITICAL, FATAL |-> CRITICAL,
   NOTSET |-> NOTSET]

\* getattr(logging, name, default)
GetAttr(name, default) ==
  IF name \in DOMAIN LoggingAttrs THEN LoggingAttrs[name] ELSE default

\* getattr(logging, s.upper(), default)
ResolveLevel(s, default) == GetAttr(Upper(s), default)

\* logging.getLevelName(level)
GetLevelName(level) ==
  CASE level = CRITICAL -> "CRITICAL"
    [] level = ERROR -> "ERROR"
    [] level = WARNING -> "WARNING"
    [] level = INFO -> "INFO"
    [] level = DEBUG -> "DEBUG"
    [] level = NOTSET -> "NOTSET"
    [] OTHER -> "Level"

(***************************************************************************)
(* Objects                                                                 *)
(***************************************************************************)
\* a slot of the handler pool that holds no object
FreeHandler == [kind |-> "", owner |-> "", level |-> NOTSET, state |-> "free"]

\* logging.Handler.__init__: a new, open handler at level NOTSET; owner names
\* the LoggerConfig whose code created it
NewHandler(c, k) == [kind |-> k, owner |-> c, level |-> NOTSET, state |-> "open"]

\* logging.Logger.__init__: level NOTSET, no handlers, no filters
NewLogger == [level |-> NOTSET, handlers |-> {}, filters |-> 0]

\* a LoggerConfig object before __init__ has run
NoConfig ==
  [constructed |-> FALSE, name |-> "", log_file |-> "", syslog_facility |-> "",
   use_file_logging |-> FALSE, use_syslog_logging |-> FALSE,
   use_console_logging |-> FALSE,
   log_level |-> NOTSET, file_log_level |-> NOTSET,
   syslog_log_level |-> NOTSET, console_log_level |-> NOTSET,
   file_handler |-> NoHandler, syslog_handler |-> NoHandler,
   console_handler |-> NoHandler]

\* the enabled flag, handler reference and stored level of one sink kind
Flag(conf, k) ==
  CASE k = "file" -> conf.use_file_logging
    [] k = "syslog" -> conf.use_syslog_logging
    [] k = "console" -> conf.use_console_logging

Handle(conf, k) ==
  CASE k = "file" -> conf.file_handler
    [] k = "syslog" -> conf.syslog_handler
    [] k = "console" -> conf.console_handler

StoredLevel(conf, k) ==
  CASE k = "file" -> conf.file_log_level
    [] k = "syslog" -> conf.syslog_log_level
    [] k = "console" -> conf.console_log_level

\* what became of the log record of a call: its level, the handlers of the
\* logger that emitted it, and whether it went to logging.lastResort
NoRecord == [levelno |-> NOTSET, handlers |-> {}, last_resort |-> FALSE]

\* the program state the operations work on, with the record the running
\* call has logged
World == [cfg |-> cfg, loggers |-> loggers, heap |-> heap, record |-> NoRecord]

\* Logger.getEffectiveLevel: a logger at NOTSET takes the level of the root
\* logger, which this module never configures and so stays at WARNING
EffectiveLevel(lg) == IF lg.level = NOTSET THEN WARNING ELSE lg.level

\* self.logger.log(levelno, ...) in state w: the record is dropped below the
\* effective level of the logger, otherwise every attached handler whose
\* level admits it emits it; with no handler at all a record of WARNING or
\* above goes to logging.lastResort
Log(w, c, levelno) ==
  LET lg == w.loggers[w.cfg[c].name]
      enabled == levelno >= EffectiveLevel(lg)
  IN  [w EXCEPT !.record =
         [levelno |-> levelno,
          handlers |-> IF enabled
                       THEN {h \in lg.handlers : levelno >= w.heap[h].level}
                       ELSE {},
          last_resort |-> enabled /\ lg.handlers = {} /\ levelno >= WARNING]]

\* self.logger.info(...) and self.logger.warning(...)
LogInfo(w, c) == Log(w, c, INFO)

LogWarning(w, c) == Log(w, c, WARNING)

IndexOf(seq, x) == CHOOSE i \in 1..Len(seq) : seq[i] = x

\* the identity of a newly allocated handler object
FreshId(hp, c, k) ==
  LET slot == 3 * (IndexOf(ConfigSeq, c) - 1) + IndexOf(KindSeq, k)
      free == {i \in HandlerIds : hp[i].state = "free"}
  IN  IF slot \in free THEN slot
      ELSE CHOOSE i \in free : \A j \in free : i <= j

CanAllocate(hp) == \E i \in HandlerIds : hp[i].state = "free"

\* handler objects some LoggerConfig or logger still refers to
Referenced(w) ==
  {Handle(w.cfg[c], k) : c \in Configs, k \in Kinds}
    \cup UNION {w.loggers[n].handlers : n \in Names}

\* closed handler objects nothing refers to are reclaimed
Collect(w) ==
  [w EXCEPT !.heap =
     [i \in HandlerIds |->
        IF w.heap[i].state = "closed" /\ i \notin Referenced(w)
        THEN FreeHandler ELSE w.heap[i]]]

(***************************************************************************)
(* Construction                                                            *)
(***************************************************************************)
SetHandle(conf, k, h) ==
  CASE k = "file" -> [conf EXCEPT !.file_handler = h]
    [] k = "syslog" -> [conf EXCEPT !.syslog_handler = h]
    [] k = "console" -> [conf EXCEPT !.console_handler = h]

SetFlag(conf, k, b) ==
  CASE k = "file" -> [conf EXCEPT !.use_file_logging = b]
    [] k = "syslog" -> [conf EXCEPT !.use_syslog_logging = b]
    [] k = "console" -> [conf EXCEPT !.use_console_logging = b]

\* the level __init__ stores for the logger
InitLogLevel(a) == ResolveLevel(a.log_level, DEBUG)

\* faulty variant: an unrecognized override falls back to DEBUG
InitFileLevel_debugFallback(a) ==
  IF a.file_log_level # NoneStr
  THEN ResolveLevel(a.file_log_level, DEBUG)
  ELSE InitLogLevel(a)

\* the level __init__ stores for the file handler
InitFileLevel(a) ==
  IF a.file_log_level # NoneStr
  THEN ResolveLevel(a.file_log_level, InitLogLevel(a))
  ELSE InitLogLevel(a)

\* faulty variant: the default is log_level itself, without the INFO floor
InitSyslogLevel_noFloor(a) ==
  IF a.syslog_log_level # NoneStr
  THEN ResolveLevel(a.syslog_log_level, PyMax(InitLogLevel(a), INFO))
  ELSE InitLogLevel(a)

\* the level __init__ stores for the syslog handler
InitSyslogLevel(a) ==
  IF a.syslog_log_level # NoneStr
  THEN ResolveLevel(a.syslog_log_level, PyMax(InitLogLevel(a), INFO))
  ELSE PyMax(InitLogLevel(a), INFO)

\* the level __init__ stores for the console handler
InitConsoleLevel(a) ==
  IF a.console_log_level # NoneStr
  THEN ResolveLevel(a.console_log_level, InitLogLevel(a))
  ELSE InitLogLevel(a)

\* the attribute assignments at the head of __init__
init_fields(a) ==
  [constructed |-> TRUE, name |-> a.name, log_file |-> a.log_file,
   syslog_facility |-> a.syslog_facility,
   use_file_logging |-> a.use_file_logging,
   use_syslog_logging |-> a.use_syslog_logging,
   use_console_logging |-> a.use_console_logging,
   log_level |-> InitLogLevel(a),
   file_log_level |-> InitFileLevel(a),
   syslog_log_level |-> InitSyslogLevel(a),
   console_log_level |-> InitConsoleLevel(a),
   file_handler |-> NoHandler, syslog_handler |-> NoHandler,
   console_handler |-> NoHandler]

\* dict.get(key, default) on the parsed JSON object
DictGet(v, default) == IF v = Absent THEN default ELSE v

\* a JSON true/false read into a flag
DictGetFlag(v, default) == IF v = Absent THEN default ELSE v = "True"

\* _load_config: the assignments run in order and the first one that raises
\* (str.upper on a value that is no string) ends the load; what was assigned
\* before it stays assigned
load_config(conf, cf) ==
  IF cf.kind # "object" THEN conf
  ELSE
    LET d == cf.data
        s1 == [conf EXCEPT !.log_file = DictGet(d.log_file, conf.log_file)]
        v2 == DictGet(d.log_level, "DEBUG")
        s2 == [s1 EXCEPT !.log_level = ResolveLevel(v2, DEBUG)]
        v3 == DictGet(d.file_log_level, "DEBUG")
        s3 == [s2 EXCEPT !.file_log_level = ResolveLevel(v3, s2.log_level)]
        v4 == DictGet(d.syslog_log_level, "INFO")
        s4 == [s3 EXCEPT !.syslog_log_level =
                 ResolveLevel(v4, PyMax(s3.log_level, INFO))]
        v5 == DictGet(d.console_log_level, "DEBUG")
        s5 == [s4 EXCEPT !.console_log_level = ResolveLevel(v5, s4.log_level)]
        s6 == [s5 EXCEPT
                 !.syslog_facility = DictGet(d.syslog_facility, s5.syslog_facility),
                 !.use_file_logging =
                    DictGetFlag(d.use_file_logging, s5.use_file_logging),
                 !.use_syslog_logging =
                    DictGetFlag(d.use_syslog_logging, s5.use_syslog_logging),
                 !.use_console_logging =
                    DictGetFlag(d.use_console_logging, s5.use_console_logging)]
    IN  CASE v2 = BadType -> s1
          [] v3 = BadType -> s2
          [] v4 = BadType -> s3
          [] v5 = BadType -> s4
          [] OTHER -> s6

\* faulty variant: the new handler takes the logger-wide level
AttachNewHandler_loggerLevel(w, c, k) ==
  LET conf == w.cfg[c]
      h == FreshId(w.heap, c, k)
  IN  [w EXCEPT
         !.heap[h] = [NewHandler(c, k) EXCEPT !.level = conf.log_level],
         !.cfg[c] = SetHandle(@, k, h),
         !.loggers[conf.name].handlers = @ \cup {h}]

\* create a handler of kind k for configuration c, give it the stored level
\* of that kind, add it to the logger and keep the reference
AttachNewHandler(w, c, k) ==
  LET conf == w.cfg[c]
      h == FreshId(w.heap, c, k)
  IN  [w EXCEPT
         !.heap[h] = [NewHandler(c, k) EXCEPT !.level = StoredLevel(conf, k)],
         !.cfg[c] = SetHandle(@, k, h),
         !.loggers[conf.name].handlers = @ \cup {h}]

\* faulty variant: no reuse guard, the enabled sinks are always created
setup_logger_noGuard(w, c, syslog_ok) ==
  LET n == w.cfg[c].name
      w1 == [w EXCEPT !.loggers[n].level = w.cfg[c].log_level,
                      !.loggers[n].filters = @ + 1]
      w2 == IF w1.cfg[c].use_file_logging
            THEN AttachNewHandler(w1, c, "file") ELSE w1
      w3 == IF w2.cfg[c].use_syslog_logging
            THEN IF syslog_ok THEN AttachNewHandler(w2, c, "syslog")
                 ELSE LogWarning(w2, c)
            ELSE w2
  IN  IF w3.cfg[c].use_console_logging
      THEN AttachNewHandler(w3, c, "console") ELSE w3

\* _setup_logger; syslog_ok tells whether SysLogHandler(...) can be created
setup_logger(w, c, syslog_ok) ==
  LET n == w.cfg[c].name
      w1 == [w EXCEPT !.loggers[n].level = w.cfg[c].log_level,
                      !.loggers[n].filters = @ + 1]
      w2 == IF w1.cfg[c].use_file_logging
            THEN AttachNewHandler(w1, c, "file") ELSE w1
      w3 == IF w2.cfg[c].use_syslog_logging
            THEN IF syslog_ok THEN AttachNewHandler(w2, c, "syslog")
                 ELSE LogWarning(w2, c)
            ELSE w2
      w4 == IF w3.cfg[c].use_console_logging
            THEN AttachNewHandler(w3, c, "console") ELSE w3
  IN  IF w1.loggers[n].handlers = {} THEN w4 ELSE w1

\* LoggerConfig.__init__
LoggerConfig_init(w, c, a, syslog_ok) ==
  LET conf == IF a.config_file.kind # "none"
              THEN load_config(init_fields(a), a.config_file)
              ELSE init_fields(a)
  IN  setup_logger([w EXCEPT !.cfg[c] = conf], c, syslog_ok)

(***************************************************************************)
(* Level changes                                                           *)
(***************************************************************************)
\* Handler.setLevel on the handler object h
SetHandlerLevel(w, h, level) == [w EXCEPT !.heap[h].level = level]

\* faulty variant: no floor
SyslogFloor_none(level) == level

\* the floor set_log_level and set_syslog_log_level put under the syslog level
SyslogFloor(level) == PyMax(level, INFO)

\* faulty variant: the new level reaches the logger but no handler
set_log_level_loggerOnly(w, c, log_level) ==
  LogInfo([w EXCEPT !.cfg[c].log_level = ResolveLevel(log_level, DEBUG),
                    !.loggers[w.cfg[c].name].level =
                       ResolveLevel(log_level, DEBUG)], c)

set_log_level(w, c, log_level) ==
  LET new_level == ResolveLevel(log_level, DEBUG)
      n == w.cfg[c].name
      w1 == [w EXCEPT !.cfg[c].log_level = new_level,
                      !.loggers[n].level = new_level]
      w2 == IF w1.cfg[c].file_handler # NoHandler
            THEN SetHandlerLevel([w1 EXCEPT !.cfg[c].file_log_level = new_level],
                                 w1.cfg[c].file_handler, new_level)
            ELSE w1
      w3 == IF w2.cfg[c].syslog_handler # NoHandler
            THEN SetHandlerLevel(
                   [w2 EXCEPT !.cfg[c].syslog_log_level = SyslogFloor(new_level)],
                   w2.cfg[c].syslog_handler, SyslogFloor(new_level))
            ELSE w2
      w4 == IF w3.cfg[c].console_handler # NoHandler
            THEN SetHandlerLevel(
                   [w3 EXCEPT !.cfg[c].console_log_level = new_level],
                   w3.cfg[c].console_handler, new_level)
            ELSE w3
  IN  LogInfo(w4, c)

\* faulty variant: the level is stored although no handler can take it
set_file_log_level_storesAnyway(w, c, log_level) ==
  LET new_level == ResolveLevel(log_level, DEBUG)
  IN  IF ~w.cfg[c].use_file_logging \/ w.cfg[c].file_handler = NoHandler
      THEN LogWarning([w EXCEPT !.cfg[c].file_log_level = new_level], c)
      ELSE LogInfo(
             SetHandlerLevel([w EXCEPT !.cfg[c].file_log_level = new_level],
                             w.cfg[c].file_handler, new_level), c)

set_file_log_level(w, c, log_level) ==
  LET new_level == ResolveLevel(log_level, DEBUG)
  IN  IF ~w.cfg[c].use_file_logging \/ w.cfg[c].file_handler = NoHandler
      THEN LogWarning(w, c)
      ELSE LogInfo(
             SetHandlerLevel([w EXCEPT !.cfg[c].file_log_level = new_level],
                             w.cfg[c].file_handler, new_level), c)

set_syslog_log_level(w, c, log_level) ==
  LET new_level == ResolveLevel(log_level, DEBUG)
  IN  IF ~w.cfg[c].use_syslog_logging \/ w.cfg[c].syslog_handler = NoHandler
      THEN LogWarning(w, c)
      ELSE LogInfo(
             SetHandlerLevel(
               [w EXCEPT !.cfg[c].syslog_log_level = SyslogFloor(new_level)],
               w.cfg[c].syslog_handler, SyslogFloor(new_level)), c)

\* faulty variant: the handler takes the level, the stored field does not
set_console_log_level_handlerOnly(w, c, log_level) ==
  LET new_level == ResolveLevel(log_level, DEBUG)
  IN  IF ~w.cfg[c].use_console_logging \/ w.cfg[c].console_handler = NoHandler
      THEN LogWarning(w, c)
      ELSE LogInfo(SetHandlerLevel(w, w.cfg[c].console_handler, new_level), c)

set_console_log_level(w, c, log_level) ==
  LET new_level == ResolveLevel(log_level, DEBUG)
  IN  IF ~w.cfg[c].use_console_logging \/ w.cfg[c].console_handler = NoHandler
      THEN LogWarning(w, c)
      ELSE LogInfo(
             SetHandlerLevel([w EXCEPT !.cfg[c].console_log_level = new_level],
                             w.cfg[c].console_handler, new_level), c)

(***************************************************************************)
(* Enabling and disabling                                                  *)
(***************************************************************************)
enable_file_logging(w, c) ==
  IF ~w.cfg[c].use_file_logging
  THEN LogInfo([AttachNewHandler(w, c, "file") EXCEPT
                  !.cfg[c].use_file_logging = TRUE], c)
  ELSE w

\* syslog_ok tells whether SysLogHandler(...) can be created; when it raises,
\* the except branch only logs a warning
enable_syslog_logging(w, c, syslog_ok) ==
  IF ~w.cfg[c].use_syslog_logging
  THEN IF syslog_ok
       THEN LogInfo([AttachNewHandler(w, c, "syslog") EXCEPT
                       !.cfg[c].use_syslog_logging = TRUE], c)
       ELSE LogWarning(w, c)
  ELSE w

enable_console_logging(w, c) ==
  IF ~w.cfg[c].use_console_logging
  THEN LogInfo([AttachNewHandler(w, c, "console") EXCEPT
                  !.cfg[c].use_console_logging = TRUE], c)
  ELSE w

\* the four statements of a disable, one by one
RemoveHandler(w, c, k) ==
  [w EXCEPT !.loggers[w.cfg[c].name].handlers = @ \ {Handle(w.cfg[c], k)}]

\* faulty variant: the handler is never closed
CloseHandler_skipped(w, c, k) == w

CloseHandler(w, c, k) ==
  [w EXCEPT !.heap[Handle(w.cfg[c], k)].state = "closed"]

ClearHandle(w, c, k) == [w EXCEPT !.cfg[c] = SetHandle(@, k, NoHandler)]

ClearFlag(w, c, k) == [w EXCEPT !.cfg[c] = SetFlag(@, k, FALSE)]

\* faulty variant: the handler is removed and closed but the flag stays set
DetachAndClose_keepsFlag(w, c, k) ==
  [w EXCEPT
     !.loggers[w.cfg[c].name].handlers = @ \ {Handle(w.cfg[c], k)},
     !.heap[Handle(w.cfg[c], k)].state = "closed",
     !.cfg[c] = SetHandle(@, k, NoHandler)]

\* removeHandler, close, clear the reference, clear the flag; the callers
\* log their confirmation after it
DetachAndClose(w, c, k) ==
  ClearFlag(ClearHandle(CloseHandler(RemoveHandler(w, c, k), c, k), c, k), c, k)

disable_file_logging(w, c) ==
  IF w.cfg[c].use_file_logging /\ w.cfg[c].file_handler # NoHandler
  THEN LogInfo(DetachAndClose(w, c, "file"), c) ELSE w

disable_syslog_logging(w, c) ==
  IF w.cfg[c].use_syslog_logging /\ w.cfg[c].syslog_handler # NoHandler
  THEN LogInfo(DetachAndClose(w, c, "syslog"), c) ELSE w

disable_console_logging(w, c) ==
  IF w.cfg[c].use_console_logging /\ w.cfg[c].console_handler # NoHandler
  THEN LogInfo(DetachAndClose(w, c, "console"), c) ELSE w

(***************************************************************************)
(* Status                                                                  *)
(***************************************************************************)
\* faulty variant: 'N/A' follows the flag instead of the handle
SinkStatus_byFlag(conf, k) ==
  [enabled |-> Flag(conf, k),
   level |-> IF Flag(conf, k)
             THEN GetLevelName(StoredLevel(conf, k)) ELSE "N/A"]

\* one entry of get_handler_status
SinkStatus(conf, k) ==
  [enabled |-> Flag(conf, k),
   level |-> IF Handle(conf, k) # NoHandler
             THEN GetLevelName(StoredLevel(conf, k)) ELSE "N/A"]

get_handler_status(conf) ==
  [file |-> SinkStatus(conf, "file"),
   syslog |-> SinkStatus(conf, "syslog"),
   console |-> SinkStatus(conf, "console"),
   logger_level |-> GetLevelName(conf.log_level)]

(***************************************************************************)
(* Inputs                                                                  *)
(***************************************************************************)
EmptyDict ==
  [log_file |-> Absent, log_level |-> Absent, file_log_level |-> Absent,
   syslog_log_level |-> Absent, console_log_level |-> Absent,
   syslog_facility |-> Absent, use_file_logging |-> Absent,
   use_syslog_logging |-> Absent, use_console_logging |-> Absent]

\* config_file=None
NoFile == [kind |-> "none", data |-> EmptyDict]

\* a path that cannot be opened or does not hold a JSON object
BadFile == [kind |-> "unreadable", data |-> EmptyDict]

\* the constructor's defaults
DefaultArgs ==
  [name |-> "app", log_file |-> "/var/log/app.log", log_level |-> "DEBUG",
   file_log_level |-> NoneStr, syslog_log_level |-> NoneStr,
   console_log_level |-> NoneStr, syslog_facility |-> "user",
   use_file_logging |-> TRUE, use_syslog_logging |-> TRUE,
   use_console_logging |-> TRUE, config_file |-> NoFile]

\* level names given to the set_*_log_level operations
LifeNames == {"DEBUG", "error", "NOPE"}

\* constructor calls of the lifecycle specification
LifeArgs ==
  {[DefaultArgs EXCEPT !.log_level = l, !.syslog_log_level = s,
                       !.use_file_logging = f, !.use_syslog_logging = y,
                       !.use_console_logging = o] :
     l \in {"DEBUG", "error"}, s \in {NoneStr, "DEBUG"},
     f \in BOOLEAN, y \in BOOLEAN, o \in BOOLEAN}

\* constructor calls of the shared-logger specification
SharedArgs ==
  {[DefaultArgs EXCEPT !.use_file_logging = f, !.use_syslog_logging = y,
                       !.use_console_logging = o] :
     f \in BOOLEAN, y \in BOOLEAN, o \in BOOLEAN}

\* constructor calls of the statement-by-statement specification
StepArgs ==
  {[DefaultArgs EXCEPT !.use_file_logging = f, !.use_console_logging = o] :
     f \in BOOLEAN, o \in BOOLEAN}

RecognizedNames ==
  {"DEBUG", "debug", "INFO", "Info", "WARNING", "warning", "ERROR", "Error",
   "CRITICAL", "critical"}

WideNames == RecognizedNames \cup {"NOPE", "inof", "notset"}

\* JSON objects given as config files
Dicts ==
  {[EmptyDict EXCEPT !.log_file = p, !.log_level = l, !.file_log_level = f,
                     !.syslog_log_level = s, !.use_syslog_logging = y] :
     p \in {Absent, "/tmp/other.log"},
     l \in {Absent, "ERROR", "NOPE", BadType},
     f \in {Absent, "NOPE"},
     s \in {Absent, "DEBUG", "NOPE"},
     y \in {Absent, "False"}}

\* constructor calls of the construction specification: every level name
\* without a config file, and every config file with a few level names
WideArgs ==
  {[DefaultArgs EXCEPT !.log_level = l, !.file_log_level = f,
                       !.syslog_log_level = s, !.console_log_level = o,
                       !.use_syslog_logging = y] :
     l \in WideNames, f \in {NoneStr, "NOPE", "info"},
     s \in {NoneStr, "DEBUG", "NOPE", "error"}, o \in {NoneStr, "nope"},
     y \in BOOLEAN}
  \cup
  {[DefaultArgs EXCEPT !.log_level = l, !.file_log_level = f,
                       !.config_file = cf] :
     l \in {"DEBUG", "warning"}, f \in {NoneStr, "CRITICAL"},
     cf \in {BadFile} \cup {[kind |-> "object", data |-> d] : d \in Dicts}}

(***************************************************************************)
(* The state machine                                                       *)
(***************************************************************************)
NoStatus == get_handler_status(NoConfig)

\* the history of the sink levels: for each configuration and kind, whether
\* a sink of that kind was ever attached, and the level its handler had
\* when it was last attached; kept only where 'on' is set
NoHist ==
  [on |-> FALSE,
   seen |-> [c \in Configs |-> [k \in Kinds |-> FALSE]],
   level |-> [c \in Configs |-> [k \in Kinds |-> NOTSET]]]

\* the history after a call that leaves state w
Track(w) ==
  IF hist.on
  THEN [hist EXCEPT
          !.seen = [c \in Configs |-> [k \in Kinds |->
                      hist.seen[c][k] \/ Handle(w.cfg[c], k) # NoHandler]],
          !.level = [c \in Configs |-> [k \in Kinds |->
                       IF Handle(w.cfg[c], k) # NoHandler
                       THEN w.heap[Handle(w.cfg[c], k)].level
                       ELSE hist.level[c][k]]]]
  ELSE hist

\* the record of a call: the operation, the LoggerConfig it ran on, its
\* arguments (level name, constructor arguments, whether a syslog handler
\* could be created), the configuration, its logger and the history of its
\* sink levels as they were before the call, the value returned and what became of the record it logged
Call(op, c) ==
  [op |-> op, c |-> c, level |-> "", args |-> DefaultArgs, ok |-> TRUE,
   pre |-> [conf |-> cfg[c], loggers |-> loggers,
            seen |-> hist.seen[c], known |-> hist.level[c]],
   ret |-> NoStatus, record |-> NoRecord]

NoCall ==
  [op |-> "start", c |-> "c1", level |-> "", args |-> DefaultArgs, ok |-> TRUE,
   pre |-> [conf |-> NoConfig, loggers |-> [n \in Names |-> NewLogger],
            seen |-> NoHist.seen["c1"], known |-> NoHist.level["c1"]],
   ret |-> NoStatus, record |-> NoRecord]

\* the names of the operations on sink kind k
EnableOp(k) ==
  CASE k = "file" -> "enable_file_logging"
    [] k = "syslog" -> "enable_syslog_logging"
    [] k = "console" -> "enable_console_logging"

DisableOp(k) ==
  CASE k = "file" -> "disable_file_logging"
    [] k = "syslog" -> "disable_syslog_logging"
    [] k = "console" -> "disable_console_logging"

\* faulty variant: the flag is cleared before the handler is detached
DisableOrder_flagFirst ==
  <<"clear_flag", "removeHandler", "close", "clear_handle", "log">>

\* the statements of a disable in the order the code runs them
DisableOrder == <<"removeHandler", "close", "clear_handle", "clear_flag", "log">>

\* the position of the thread that runs a disable statement by statement:
\* i = 0 outside a disable, otherwise the statement of DisableOrder to run
NoDisable == [c |-> "c1", k |-> "file", i |-> 0]

\* what a get_handler_status running in another thread has read so far:
\* reads counts the attribute reads done, status is the dict it builds, and
\* handle, attached and open tell what the handler reference it read was
NoObs ==
  [c |-> "c1", reads |-> 0, status |-> NoStatus,
   handle |-> [k \in Kinds |-> NoHandler],
   attached |-> [k \in Kinds |-> FALSE],
   open |-> [k \in Kinds |-> FALSE]]

Init ==
  /\ cfg = [c \in Configs |-> NoConfig]
  /\ loggers = [n \in Names |-> NewLogger]
  /\ heap = [i \in HandlerIds |-> FreeHandler]
  /\ last = NoCall
  /\ prev = NoCall
  /\ pc = NoDisable
  /\ obs = NoObs
  /\ hist = NoHist

\* the same start, with the history of the sink levels kept
InitLevels ==
  /\ cfg = [c \in Configs |-> NoConfig]
  /\ loggers = [n \in Names |-> NewLogger]
  /\ heap = [i \in HandlerIds |-> FreeHandler]
  /\ last = NoCall
  /\ prev = NoCall
  /\ pc = NoDisable
  /\ obs = NoObs
  /\ hist = [NoHist EXCEPT !.on = TRUE]

Free == {i \in HandlerIds : heap[i].state = "free"}

\* the step of one operation: w is the state it leaves, l its record
Step(w, l) ==
  /\ cfg' = Collect(w).cfg
  /\ loggers' = Collect(w).loggers
  /\ heap' = Collect(w).heap
  /\ last' = [l EXCEPT !.record = w.record]
  /\ prev' = last
  /\ hist' = Track(Collect(w))
  /\ UNCHANGED <<pc, obs>>

Construct(c, a, syslog_ok) ==
  /\ ~cfg[c].constructed
  /\ Cardinality(Free) >= 3
  /\ Step(LoggerConfig_init(World, c, a, syslog_ok),
          [Call("init", c) EXCEPT !.args = a, !.ok = syslog_ok])

SetLogLevel(c, L) ==
  /\ cfg[c].constructed
  /\ Step(set_log_level(World, c, L),
          [Call("set_log_level", c) EXCEPT !.level = L])

SetFileLogLevel(c, L) ==
  /\ cfg[c].constructed
  /\ Step(set_file_log_level(World, c, L),
          [Call("set_file_log_level", c) EXCEPT !.level = L])

SetSyslogLogLevel(c, L) ==
  /\ cfg[c].constructed
  /\ Step(set_syslog_log_level(World, c, L),
          [Call("set_syslog_log_level", c) EXCEPT !.level = L])

SetConsoleLogLevel(c, L) ==
  /\ cfg[c].constructed
  /\ Step(set_console_log_level(World, c, L),
          [Call("set_console_log_level", c) EXCEPT !.level = L])

EnableFileLogging(c) ==
  /\ cfg[c].constructed
  /\ Free # {}
  /\ Step(enable_file_logging(World, c), Call("enable_file_logging", c))

EnableSyslogLogging(c, syslog_ok) ==
  /\ cfg[c].constructed
  /\ Free # {}
  /\ Step(enable_syslog_logging(World, c, syslog_ok),
          [Call("enable_syslog_logging", c) EXCEPT !.ok = syslog_ok])

EnableConsoleLogging(c) ==
  /\ cfg[c].constructed
  /\ Free # {}
  /\ Step(enable_console_logging(World, c), Call("enable_console_logging", c))

DisableFileLogging(c) ==
  /\ cfg[c].constructed
  /\ Step(disable_file_logging(World, c), Call("disable_file_logging", c))

DisableSyslogLogging(c) ==
  /\ cfg[c].constructed
  /\ Step(disable_syslog_logging(World, c), Call("disable_syslog_logging", c))

DisableConsoleLogging(c) ==
  /\ cfg[c].constructed
  /\ Step(disable_console_logging(World, c), Call("disable_console_logging", c))

GetHandlerStatus(c) ==
  /\ cfg[c].constructed
  /\ Step(World, [Call("get_handler_status", c) EXCEPT
                    !.ret = get_handler_status(cfg[c])])

\* disable_*_logging of kind k, statement by statement: the guard
DisableBegin(c, k) ==
  /\ cfg[c].constructed
  /\ pc.i = 0
  /\ IF Flag(cfg[c], k) /\ Handle(cfg[c], k) # NoHandler
     THEN /\ pc' = [c |-> c, k |-> k, i |-> 1]
          /\ last' = Call(DisableOp(k), c)
          /\ prev' = last
          /\ UNCHANGED <<cfg, loggers, heap, obs, hist>>
     ELSE Step(World, Call(DisableOp(k), c))

\* the disable in progress is at statement s
At(c, s) == pc.i > 0 /\ pc.c = c /\ DisableOrder[pc.i] = s

\* one statement of the disable in progress leaves state w
Advance(w) ==
  /\ cfg' = Collect(w).cfg
  /\ loggers' = Collect(w).loggers
  /\ heap' = Collect(w).heap
  /\ pc' = [pc EXCEPT !.i = @ + 1]
  /\ UNCHANGED <<last, prev, obs, hist>>

DisableRemoveHandler(c) ==
  At(c, "removeHandler") /\ Advance(RemoveHandler(World, c, pc.k))

DisableClose(c) == At(c, "close") /\ Advance(CloseHandler(World, c, pc.k))

DisableClearHandle(c) ==
  At(c, "clear_handle") /\ Advance(ClearHandle(World, c, pc.k))

DisableClearFlag(c) ==
  At(c, "clear_flag") /\ Advance(ClearFlag(World, c, pc.k))

\* the confirmation record, after which the disable returns
DisableLog(c) ==
  /\ At(c, "log")
  /\ last' = [last EXCEPT !.record = LogInfo(World, c).record]
  /\ pc' = NoDisable
  /\ UNCHANGED <<cfg, loggers, heap, prev, obs, hist>>

\* get_handler_status in another thread, read by read: 'enabled' of kind k
ReadFlag(c, k) ==
  /\ cfg[c].constructed
  /\ \/ obs.reads = 2 * (IndexOf(KindSeq, k) - 1) /\ obs.c = c
     \/ obs.reads \in {0, 7} /\ k = "file"
  /\ obs' = [(IF k = "file" THEN [NoObs EXCEPT !.c = c] ELSE obs) EXCEPT
               !.reads = 2 * IndexOf(KindSeq, k) - 1,
               !.status[k].enabled = Flag(cfg[c], k)]
  /\ UNCHANGED <<cfg, loggers, heap, last, prev, pc, hist>>

\* 'level' of kind k: the handler reference, then the stored level
ReadHandle(c, k) ==
  /\ obs.c = c
  /\ obs.reads = 2 * IndexOf(KindSeq, k) - 1
  /\ obs' = [obs EXCEPT
               !.reads = @ + 1,
               !.status[k].level = SinkStatus(cfg[c], k).level,
               !.handle[k] = Handle(cfg[c], k),
               !.attached[k] = Handle(cfg[c], k) \in loggers[cfg[c].name].handlers,
               !.open[k] = /\ Handle(cfg[c], k) # NoHandler
                           /\ heap[Handle(cfg[c], k)].state = "open"]
  /\ UNCHANGED <<cfg, loggers, heap, last, prev, pc, hist>>

\* 'logger_level', after which the dict is returned
ReadLoggerLevel(c) ==
  /\ obs.c = c
  /\ obs.reads = 6
  /\ obs' = [obs EXCEPT !.reads = 7,
                        !.status.logger_level = GetLevelName(cfg[c].log_level)]
  /\ UNCHANGED <<cfg, loggers, heap, last, prev, pc, hist>>

\* one LoggerConfig on its own logger, every operation
Next ==
  \E c \in OneConfig :
    \/ \E a \in LifeArgs, ok \in BOOLEAN : Construct(c, a, ok)
    \/ \E L \in LifeNames : SetLogLevel(c, L)
    \/ \E L \in LifeNames : SetFileLogLevel(c, L)
    \/ \E L \in LifeNames : SetSyslogLogLevel(c, L)
    \/ \E L \in LifeNames : SetConsoleLogLevel(c, L)
    \/ EnableFileLogging(c)
    \/ \E ok \in BOOLEAN : EnableSyslogLogging(c, ok)
    \/ EnableConsoleLogging(c)
    \/ DisableFileLogging(c)
    \/ DisableSyslogLogging(c)
    \/ DisableConsoleLogging(c)
    \/ GetHandlerStatus(c)

Spec == Init /\ [][Next]_vars

\* construction alone, over every kind of constructor argument
NextCtor ==
  \E c \in OneConfig :
    \/ \E a \in WideArgs, ok \in BOOLEAN : Construct(c, a, ok)
    \/ GetHandlerStatus(c)

SpecCtor == Init /\ [][NextCtor]_vars

\* level names given to the constructor, the config file and the
\* set_*_log_level operations of the level-name specification
NameDicts ==
  {[EmptyDict EXCEPT !.log_level = "NOPE"],
   [EmptyDict EXCEPT !.file_log_level = "NOPE"],
   [EmptyDict EXCEPT !.log_level = "ERROR", !.file_log_level = "NOPE",
                     !.syslog_log_level = "NOPE", !.console_log_level = "nope"]}

NameArgs ==
  {[DefaultArgs EXCEPT !.log_level = l, !.file_log_level = f,
                       !.syslog_log_level = s, !.console_log_level = o,
                       !.config_file = cf] :
     l \in {"error", "inof"}, f \in {NoneStr, "nope"}, s \in {NoneStr, "nope"},
     o \in {NoneStr, "nope"},
     cf \in {NoFile} \cup {[kind |-> "object", data |-> d] : d \in NameDicts}}

NameNames == {"nope", "error"}

\* one LoggerConfig, constructed from and re-levelled with unrecognized names
NextNames ==
  \E c \in OneConfig :
    \/ \E a \in NameArgs, ok \in BOOLEAN : Construct(c, a, ok)
    \/ \E L \in NameNames : SetLogLevel(c, L)
    \/ \E L \in NameNames : SetFileLogLevel(c, L)
    \/ \E L \in NameNames : SetSyslogLogLevel(c, L)
    \/ \E L \in NameNames : SetConsoleLogLevel(c, L)
    \/ GetHandlerStatus(c)

SpecNames == Init /\ [][NextNames]_vars

\* several LoggerConfig objects of the same name on the shared logger
NextShared ==
  \E c \in Configs :
    \/ \E a \in SharedArgs, ok \in BOOLEAN : Construct(c, a, ok)
    \/ EnableFileLogging(c)
    \/ \E ok \in BOOLEAN : EnableSyslogLogging(c, ok)
    \/ EnableConsoleLogging(c)
    \/ DisableFileLogging(c)
    \/ DisableSyslogLogging(c)
    \/ DisableConsoleLogging(c)
    \/ GetHandlerStatus(c)

SpecShared == Init /\ [][NextShared]_vars

\* level names of the level-history specification
LevelNames == {"DEBUG", "error"}

\* one LoggerConfig with the history of its sink levels: the level changes
\* and every enable and disable
NextLevels ==
  \E c \in OneConfig :
    \/ \E a \in SharedArgs, ok \in BOOLEAN : Construct(c, a, ok)
    \/ \E L \in LevelNames : SetLogLevel(c, L)
    \/ \E L \in LevelNames : SetFileLogLevel(c, L)
    \/ EnableFileLogging(c)
    \/ \E ok \in BOOLEAN : EnableSyslogLogging(c, ok)
    \/ EnableConsoleLogging(c)
    \/ DisableFileLogging(c)
    \/ DisableSyslogLogging(c)
    \/ DisableConsoleLogging(c)

SpecLevels == InitLevels /\ [][NextLevels]_vars

\* no disable and no status read is in progress
Quiet == pc.i = 0 /\ obs.reads \in {0, 7}

\* one LoggerConfig whose disables run statement by statement while another
\* thread reads the status; construction and the enables run between the
\* status reads, so that a read overlaps disables only
NextSteps ==
  \E c \in OneConfig :
    \/ Quiet /\ \E a \in StepArgs, ok \in BOOLEAN : Construct(c, a, ok)
    \/ Quiet /\ EnableFileLogging(c)
    \/ Quiet /\ \E ok \in BOOLEAN : EnableSyslogLogging(c, ok)
    \/ Quiet /\ EnableConsoleLogging(c)
    \/ \E k \in Kinds : DisableBegin(c, k)
    \/ DisableRemoveHandler(c)
    \/ DisableClose(c)
    \/ DisableClearHandle(c)
    \/ DisableClearFlag(c)
    \/ DisableLog(c)
    \/ \E k \in Kinds : ReadFlag(c, k)
    \/ \E k \in Kinds : ReadHandle(c, k)
    \/ ReadLoggerLevel(c)

SpecSteps == Init /\ [][NextSteps]_vars

TypeOK ==
  /\ \A c \in Configs : cfg[c].constructed \in BOOLEAN
  /\ \A n \in Names : loggers[n].handlers \subseteq HandlerIds
  /\ \A i \in HandlerIds : heap[i].state \in {"free", "open", "closed"}

(***************************************************************************)
(* Properties                                                              *)
(***************************************************************************)
Constructed == {c \in Configs : cfg[c].constructed}

\* the logger a constructed configuration works on
LoggerOf(c) == loggers[cfg[c].name]

\* the sinks of kind k attached to the logger of c
AttachedOfKind(c, k) == {h \in LoggerOf(c).handlers : heap[h].kind = k}

\* the kinds of which c holds a handler that is attached to its logger
HeldAttached(c) ==
  {k \in Kinds : /\ Handle(cfg[c], k) # NoHandler
                 /\ Handle(cfg[c], k) \in LoggerOf(c).handlers}

EnabledKinds(c) == {k \in Kinds : Flag(cfg[c], k)}

\* C1: in every reachable state of a LoggerConfig, for each sink kind the
\* handle is non-null if and only if that kind's enabled flag is true.
C1_HandleIffFlag ==
  \A c \in Constructed : \A k \in Kinds :
    (Handle(cfg[c], k) # NoHandler) <=> Flag(cfg[c], k)

\* C2: in every reachable state the stored syslog level is >= INFO, whatever
\* log_level and syslog_log_level override the constructor was given.
C2_SyslogLevelAtLeastInfo ==
  \A c \in Constructed : cfg[c].syslog_log_level >= INFO

\* C3: a construction with use_syslog_logging=True in which the syslog sink
\* cannot be created ends with a null syslog handle, a false syslog flag and
\* get_handler_status()['syslog'] = {'enabled': False, 'level': 'N/A'}.
C3_FailedSyslogLeavesDisabled ==
  (last.op = "init" /\ last.args.use_syslog_logging /\ ~last.ok) =>
     /\ cfg[last.c].syslog_handler = NoHandler
     /\ ~cfg[last.c].use_syslog_logging
     /\ get_handler_status(cfg[last.c]).syslog =
          [enabled |-> FALSE, level |-> "N/A"]

\* C4: right after any construction, on a fresh or on a reused logger, the
\* kinds this configuration holds attached to the logger are exactly the
\* kinds whose flag is true, less a syslog sink whose creation failed.
C4_AttachedMatchesFlags ==
  (last.op = "init") =>
     HeldAttached(last.c) =
       EnabledKinds(last.c) \ (IF last.ok THEN {} ELSE {"syslog"})

(***************************************************************************)
(* Level names as the specification reads them                             *)
(***************************************************************************)
LevelOfName ==
  [DEBUG |-> 10, INFO |-> 20, WARNING |-> 30, ERROR |-> 40, CRITICAL |-> 50]

\* resolve(L): one of the five names in any letter case, otherwise DEBUG
SpecResolve(L) ==
  IF Upper(L) \in DOMAIN LevelOfName THEN LevelOfName[Upper(L)] ELSE 10

\* a string that names no level at all
Unrecognized(x) ==
  /\ x \notin {NoneStr, Absent, BadType}
  /\ Upper(x) \notin DOMAIN LoggingAttrs

\* the level a sink of kind k is expected to hold after a logger-wide change
ExpectedAfter(k, r) == IF k = "syslog" /\ r < 20 THEN 20 ELSE r

C6_SetSyslogLevelFloor ==
  (/\ last.op = "set_syslog_log_level"
   /\ last.pre.conf.use_syslog_logging
   /\ last.pre.conf.syslog_handler # NoHandler
   /\ last.pre.conf.syslog_handler \in last.pre.loggers[last.pre.conf.name].handlers)
  =>
     LET c == last.c
         h == cfg[c].syslog_handler
     IN  /\ h = last.pre.conf.syslog_handler
         /\ h \in LoggerOf(c).handlers
         /\ heap[h].level = ExpectedAfter("syslog", SpecResolve(last.level))
         /\ cfg[c].syslog_log_level = heap[h].level

\* set_syslog_log_level('DEBUG') on a sink that was at another level
C6_Witness ==
  /\ last.op = "set_syslog_log_level" /\ last.level = "DEBUG"
  /\ last.pre.conf.use_syslog_logging
  /\ last.pre.conf.syslog_handler # NoHandler
  /\ last.pre.conf.syslog_log_level # 20
  /\ heap[cfg[last.c].syslog_handler].level = 20

\* a constructor call with a recognized log_level and nothing else
PlainArgs(a) ==
  /\ Upper(a.log_level) \in DOMAIN LevelOfName
  /\ a.file_log_level = NoneStr
  /\ a.syslog_log_level = NoneStr
  /\ a.console_log_level = NoneStr
  /\ a.config_file.kind = "none"

UnrecognizedResolves(fileFallback, syslogFallback, consoleFallback) ==
  LET c == last.c
      a == last.args
      d == a.config_file.data
  IN  /\ (last.op = "init" /\ a.config_file.kind = "none") =>
           /\ Unrecognized(a.log_level) => cfg[c].log_level = 10
           /\ Unrecognized(a.file_log_level) =>
                cfg[c].file_log_level = fileFallback
           /\ Unrecognized(a.syslog_log_level) =>
                cfg[c].syslog_log_level = syslogFallback
           /\ Unrecognized(a.console_log_level) =>
                cfg[c].console_log_level = consoleFallback
      /\ (last.op = "init" /\ a.config_file.kind = "object"
            /\ \A key \in DOMAIN d : d[key] # BadType) =>
           /\ Unrecognized(d.log_level) => cfg[c].log_level = 10
           /\ Unrecognized(d.file_log_level) =>
                cfg[c].file_log_level = fileFallback
           /\ Unrecognized(d.syslog_log_level) =>
                cfg[c].syslog_log_level = syslogFallback
           /\ Unrecognized(d.console_log_level) =>
                cfg[c].console_log_level = consoleFallback
      /\ (last.op = "set_log_level" /\ Unrecognized(last.level)) =>
           /\ cfg[c].log_level = 10
           /\ LoggerOf(c).level = 10
      /\ (last.op = "set_file_log_level" /\ Unrecognized(last.level)
            /\ "file" \in HeldAttached(c) /\ cfg[c].use_file_logging) =>
           /\ cfg[c].file_log_level = 10
           /\ heap[cfg[c].file_handler].level = 10
      /\ (last.op = "set_console_log_level" /\ Unrecognized(last.level)
            /\ "console" \in HeldAttached(c) /\ cfg[c].use_console_logging) =>
           /\ cfg[c].console_log_level = 10
           /\ heap[cfg[c].console_handler].level = 10

\* C8 as stated: every input that accepts a level name resolves an
\* unrecognized name to DEBUG (the syslog name then lifted to INFO).
C8_UnrecognizedIsDebug == UnrecognizedResolves(10, 20, 10)

\* C8 as amended: log_level (constructor argument and config-file key) and
\* the setters resolve an unrecognized name to DEBUG; an unrecognized
\* per-sink name at construction or in a fully loaded config file resolves
\* to the resolved log_level (syslog: max(log_level, INFO)).
C8_UnrecognizedFallback ==
  UnrecognizedResolves(cfg[last.c].log_level,
                       ExpectedAfter("syslog", cfg[last.c].log_level),
                       cfg[last.c].log_level)

\* log_level='error' with file_log_level='nope': the file level is ERROR
C8_Witness ==
  /\ last.op = "init" /\ last.args.config_file.kind = "none"
  /\ last.args.log_level = "error" /\ last.args.file_log_level = "nope"
  /\ cfg[last.c].file_log_level = 40
  /\ heap[cfg[last.c].file_handler].level = 40

\* C9: two enableX() calls in a row (the sink being creatable) leave exactly
\* one sink of kind X attached, and the second call changes no state.
C9_EnableTwiceIdempotent ==
  \A k \in Kinds :
    (/\ prev.op = EnableOp(k) /\ last.op = EnableOp(k)
     /\ prev.c = last.c /\ prev.ok /\ last.ok)
    =>
     /\ Cardinality(AttachedOfKind(last.c, k)) = 1
     /\ cfg[last.c] = last.pre.conf
     /\ loggers = last.pre.loggers

\* C10: from a state in which X is disabled, enableX() then disableX() ends
\* with X's flag false, X's handle null, no sink of kind X of this
\* configuration on the logger and status {enabled: False, level: 'N/A'},
\* whether or not the sink could be created.
C10_EnableThenDisable ==
  \A k \in Kinds :
    (/\ prev.op = EnableOp(k) /\ last.op = DisableOp(k)
     /\ prev.c = last.c /\ ~Flag(prev.pre.conf, k))
    =>
     LET c == last.c
     IN  /\ ~Flag(cfg[c], k)
         /\ Handle(cfg[c], k) = NoHandler
         /\ \A h \in AttachedOfKind(c, k) : heap[h].owner # c
         /\ Handle(last.pre.conf, k) \notin LoggerOf(c).handlers
         /\ get_handler_status(cfg[c])[k] =
              [enabled |-> FALSE, level |-> "N/A"]

\* a syslog sink that was created by the enable and removed by the disable
C10_Witness ==
  /\ prev.op = "enable_syslog_logging" /\ prev.ok
  /\ ~prev.pre.conf.use_syslog_logging
  /\ last.op = "disable_syslog_logging" /\ prev.c = last.c
  /\ last.pre.conf.syslog_handler # NoHandler
  /\ cfg[last.c].syslog_handler = NoHandler

\* the number of sinks of kind k in a set of attached handlers
CountOfKind(hs, k) == Cardinality({h \in hs : heap[h].kind = k})

\* C11: in every reachable state the shared named logger has at most one
\* attached sink of each kind, also when several LoggerConfig objects of
\* the same name are constructed and enabled / disabled.
C11_AtMostOneSinkPerKind ==
  \A n \in Names : \A k \in Kinds : CountOfKind(loggers[n].handlers, k) <= 1

\* C12: constructing a further LoggerConfig of the same name never raises
\* the number of attached sinks of any kind beyond one: on a logger that
\* already has sinks the construction attaches nothing.
C12_SecondConstructionAddsNoDuplicate ==
  (last.op = "init") =>
     LET before == last.pre.loggers[cfg[last.c].name].handlers
         after == LoggerOf(last.c).handlers
     IN  /\ before # {} => after = before
         /\ \A k \in Kinds :
              CountOfKind(after, k) > CountOfKind(before, k) =>
                CountOfKind(after, k) = 1

\* a second construction that asks for a file sink on a logger that has one
C12_Witness ==
  /\ last.op = "init" /\ last.c = "c2" /\ cfg["c1"].constructed
  /\ last.args.use_file_logging
  /\ cfg["c1"].file_handler \in LoggerOf("c2").handlers
  /\ CountOfKind(LoggerOf("c2").handlers, "file") = 1

\* the fields a config file can set, by the key that sets them
ConfigKeys ==
  {"log_file", "log_level", "file_log_level", "syslog_log_level",
   "console_log_level", "syslog_facility", "use_file_logging",
   "use_syslog_logging", "use_console_logging"}

LevelKeys ==
  {"log_level", "file_log_level", "syslog_log_level", "console_log_level"}

\* the load of the config file of a constructor call ran to its end
LoadSucceeded(a) ==
  /\ a.config_file.kind = "object"
  /\ \A key \in LevelKeys : a.config_file.data[key] # BadType

\* the load of the config file of a constructor call raised
LoadFailed(a) ==
  \/ a.config_file.kind = "unreadable"
  \/ /\ a.config_file.kind = "object"
     /\ \E key \in LevelKeys : a.config_file.data[key] = BadType

\* C14: after a config file loaded successfully, every recognized key that
\* is absent from it leaves its field at the value resolved from the
\* constructor arguments.
C14_AbsentKeyKeepsField ==
  (last.op = "init" /\ LoadSucceeded(last.args)) =>
     \A key \in ConfigKeys :
       last.args.config_file.data[key] = Absent =>
         cfg[last.c][key] = init_fields(last.args)[key]

\* C15: if loading the config file fails at any point, every configuration
\* field has exactly its pre-load value; no field is left partly updated.
C15_FailedLoadChangesNothing ==
  (last.op = "init" /\ LoadFailed(last.args)) =>
     \A key \in ConfigKeys :
       cfg[last.c][key] = init_fields(last.args)[key]

\* C16: from a state in which X has no handle, enableX() with a creatable
\* sink ends with X's handle non-null and attached and X's flag true; so a
\* syslog sink that failed at construction can be brought up later.
C16_EnableBringsSinkUp ==
  \A k \in Kinds :
    (/\ last.op = EnableOp(k) /\ last.ok
     /\ Handle(last.pre.conf, k) = NoHandler)
    =>
     /\ Handle(cfg[last.c], k) # NoHandler
     /\ Handle(cfg[last.c], k) \in LoggerOf(last.c).handlers
     /\ Flag(cfg[last.c], k)

\* C17: after disableX() returns, X's flag is false and X's handle is null,
\* and get_handler_status() reports enabled False and level 'N/A' for X.
C17_DisableLeavesDisabled ==
  \A k \in Kinds :
    (last.op = DisableOp(k)) =>
       /\ ~Flag(cfg[last.c], k)
       /\ Handle(cfg[last.c], k) = NoHandler
       /\ get_handler_status(cfg[last.c])[k] =
            [enabled |-> FALSE, level |-> "N/A"]

SetLevelOp(k) ==
  CASE k = "file" -> "set_file_log_level"
    [] k = "syslog" -> "set_syslog_log_level"
    [] k = "console" -> "set_console_log_level"

\* sink kind k of a configuration is enabled and holds a handle
Usable(conf, k) == Flag(conf, k) /\ Handle(conf, k) # NoHandler

\* C13: set_file_log_level, set_console_log_level or set_syslog_log_level
\* on a sink that is not enabled or has no handle changes no flag, handle,
\* stored level, logger level, attached sink or handler; on an attached file
\* or console sink it sets the sink's level to resolve(L), without a floor.
C13_SetSinkLevelGuard ==
  [][\A k \in Kinds :
       (last'.op = SetLevelOp(k)) =>
          IF ~Usable(cfg[last'.c], k)
          THEN UNCHANGED <<cfg, loggers, heap>>
          ELSE (k # "syslog") =>
                 /\ heap'[Handle(cfg'[last'.c], k)].level =
                      SpecResolve(last'.level)
                 /\ StoredLevel(cfg'[last'.c], k) = SpecResolve(last'.level)
                 /\ Handle(cfg'[last'.c], k) = Handle(cfg[last'.c], k)
                 /\ loggers' = loggers]_vars

\* set_file_log_level was called with the file sink disabled, and
\* set_console_log_level changed the level of an attached console sink
C13_Witness ==
  /\ last.op = "set_file_log_level" /\ last.level = "error"
  /\ ~Usable(last.pre.conf, "file")
  /\ cfg[last.c] = last.pre.conf
  /\ prev.op = "set_console_log_level" /\ prev.level = "error"
  /\ Usable(cfg[last.c], "console")
  /\ heap[cfg[last.c].console_handler].level = 40

\* the name of a level of the five-level ordering
NameOfLevel(l) == CHOOSE n \in DOMAIN LevelOfName : LevelOfName[n] = l

\* C18: get_handler_status() reports for each sink kind enabled = the flag
\* and level = 'N/A' exactly when the handle is null, otherwise the name of
\* the stored level, whatever the flag; it reports the logger-wide level
\* name; and the call changes no flag, handle, level or attached sink.
C18_StatusIsPureRead ==
  [][(last'.op = "get_handler_status") =>
       /\ \A k \in Kinds :
            /\ last'.ret[k].enabled = Flag(cfg[last'.c], k)
            /\ last'.ret[k].level =
                 IF Handle(cfg[last'.c], k) = NoHandler THEN "N/A"
                 ELSE NameOfLevel(StoredLevel(cfg[last'.c], k))
       /\ last'.ret.logger_level = NameOfLevel(cfg[last'.c].log_level)
       /\ UNCHANGED <<cfg, loggers, heap>>]_vars

\* a status read with the syslog flag set but no syslog handle, next to a
\* file sink at ERROR
C18_Witness ==
  /\ last.op = "get_handler_status"
  /\ cfg[last.c].use_syslog_logging
  /\ cfg[last.c].syslog_handler = NoHandler
  /\ last.ret.syslog = [enabled |-> TRUE, level |-> "N/A"]
  /\ last.ret.file = [enabled |-> TRUE, level |-> "ERROR"]
  /\ ~last.ret.console.enabled

\* C19: the confirmation record of disableX() is always delivered to some
\* sink: when X is the only sink attached to the logger, X receives it;
\* otherwise a sink that remains attached does.  Stated for the calls in
\* which the levels admit an INFO record: the logger is at INFO or below,
\* and so is X (when it is the only sink) or some sink that remains.
C19_DisableRecordDelivered ==
  \A k \in Kinds :
    (/\ last.op = DisableOp(k) /\ Usable(last.pre.conf, k)
     /\ last.pre.conf.log_level <= 20)
    =>
     LET x == Handle(last.pre.conf, k)
         before == last.pre.loggers[last.pre.conf.name].handlers
         others == before \ {x}
     IN  IF others = {}
         THEN StoredLevel(last.pre.conf, k) <= 20 =>
                x \in last.record.handlers
         ELSE (\E h \in others : heap[h].level <= 20) =>
                last.record.handlers \cap others # {}

\* C20: while disableX() runs statement by statement, a get_handler_status()
\* in another thread never reads X's flag as false and then finds X's handle
\* non-null, attached to the logger or open; and in every intermediate state
\* a false flag comes with a null handle and no sink of that kind attached.
C20_ReaderNeverSeesLingeringHandle ==
  /\ \A k \in Kinds :
       (obs.reads >= 2 * IndexOf(KindSeq, k) /\ ~obs.status[k].enabled) =>
          /\ obs.handle[k] = NoHandler
          /\ ~obs.attached[k]
          /\ ~obs.open[k]
          /\ obs.status[k].level = "N/A"
  /\ \A c \in Constructed : \A k \in Kinds :
       ~Flag(cfg[c], k) =>
          /\ Handle(cfg[c], k) = NoHandler
          /\ AttachedOfKind(c, k) = {}

\* the reader read the file flag before a disable of the file sink and the
\* file handle after it, then read the console flag as false while the
\* disable of the console sink had its confirmation record still to log
C20_Witness ==
  /\ obs.reads >= 6
  /\ obs.status.file = [enabled |-> TRUE, level |-> "N/A"]
  /\ obs.status.console = [enabled |-> FALSE, level |-> "N/A"]
  /\ pc.i = 5 /\ pc.k = "console"
  /\ last.pre.conf.use_console_logging
  /\ last.pre.conf.console_handler # NoHandler

\* C22: for each sink kind whose handle is non-null, the level set on the
\* handler equals the stored per-sink level field, so the level name that
\* get_handler_status() reports is the level the sink filters at.
C22_HandlerLevelIsStoredLevel ==
  \A c \in Constructed : \A k \in Kinds :
    Handle(cfg[c], k) # NoHandler =>
       /\ heap[Handle(cfg[c], k)].level = StoredLevel(cfg[c], k)
       /\ get_handler_status(cfg[c])[k].level =
            NameOfLevel(heap[Handle(cfg[c], k)].level)

\* set_console_log_level moved the console sink to ERROR next to a file
\* sink that stayed at DEBUG
C22_Witness ==
  /\ last.op = "set_console_log_level" /\ last.level = "error"
  /\ last.pre.conf.console_log_level = 10
  /\ cfg[last.c].console_handler # NoHandler
  /\ heap[cfg[last.c].console_handler].level = 40
  /\ cfg[last.c].file_handler # NoHandler
  /\ heap[cfg[last.c].file_handler].level = 10

\* C23: every handler a configuration created and has not closed is the
\* configuration's handle of that kind, is attached to the logger and has
\* its flag true; a non-null handle implies flag true and attached; and a
\* disable that removes a handler also closes it.
C23_NoSinkLeak ==
  /\ \A i \in HandlerIds :
       heap[i].state = "open" =>
          /\ Handle(cfg[heap[i].owner], heap[i].kind) = i
          /\ i \in LoggerOf(heap[i].owner).handlers
          /\ Flag(cfg[heap[i].owner], heap[i].kind)
  /\ \A c \in Constructed : \A k \in Kinds :
       Handle(cfg[c], k) # NoHandler =>
          /\ Flag(cfg[c], k)
          /\ Handle(cfg[c], k) \in LoggerOf(c).handlers
  /\ \A k \in Kinds :
       (last.op = DisableOp(k) /\ Usable(last.pre.conf, k)) =>
          /\ Handle(last.pre.conf, k) \notin LoggerOf(last.c).handlers
          /\ heap[Handle(last.pre.conf, k)].state # "open"

\* a disable removed the file handler while the console handler stays open
C23_Witness ==
  /\ last.op = "disable_file_logging"
  /\ Usable(last.pre.conf, "file")
  /\ heap[last.pre.conf.file_handler].state # "open"
  /\ cfg[last.c].file_handler = NoHandler
  /\ cfg[last.c].console_handler # NoHandler
  /\ heap[cfg[last.c].console_handler].state = "open"

\* C21: enableX() attaches the sink with its last-known level: when X was
\* attached at level V and has been disabled, an enableX() whose creation
\* succeeds ends with X attached at level V again, whatever set_log_level
\* calls came between the disable and the enable.
C21_EnableRestoresLevel ==
  \A k \in Kinds :
    (/\ last.op = EnableOp(k) /\ last.ok
     /\ ~Flag(last.pre.conf, k) /\ last.pre.seen[k])
    =>
     /\ Handle(cfg[last.c], k) # NoHandler
     /\ Handle(cfg[last.c], k) \in LoggerOf(last.c).handlers
     /\ heap[Handle(cfg[last.c], k)].level = last.pre.known[k]
     /\ StoredLevel(cfg[last.c], k) = last.pre.known[k]

\* the console sink, once attached at DEBUG, is enabled again right after a
\* set_log_level('error') that found it disabled
C21_Witness ==
  /\ last.op = "enable_console_logging"
  /\ last.pre.seen["console"] /\ last.pre.known["console"] = 10
  /\ prev.op = "set_log_level" /\ prev.level = "error"
  /\ ~prev.pre.conf.use_console_logging
  /\ cfg[last.c].log_level = 40
  /\ cfg[last.c].console_handler # NoHandler
  /\ heap[cfg[last.c].console_handler].level = 10

====
